---- MODULE Spec2Model ----
(***************************************************************************)
(* Model of the owned wide strings U16String / U32String of                *)
(* src/src/ustring.rs.  A string is its `inner` vector of code units.      *)
(* Every method is one action; a method that panics leaves the machine in  *)
(* status "panic" with `inner` holding whatever the method had already     *)
(* written before the panicking statement.                                 *)
(*                                                                         *)
(* Indices are the 0-based indices of the source; Sub(v, a, b) is the      *)
(* source's v[a..b].                                                       *)
(***************************************************************************)
EXTENDS Integers, Sequences, FiniteSets, TLC

\* ------------------------------------------------------------------ bounds
MaxLen == 3      \* longest string the growing operations may produce
MaxSlice == 1    \* longest raw slice handed to an operation
MaxAdditional == 2   \* largest `additional` handed to reserve / reserve_exact
MaxText == 2     \* longest text (in scalars) handed to push_str / write_str

\* ------------------------------------------------------------------ inputs
\* 16-bit code units offered as raw input: the nul unit, a high surrogate
\* (0xD83D) and a low surrogate (0xDC00, the first one).  U+00E9 and the low
\* surrogate 0xDE00 come into the strings through Chars.
Nul == 0
Units16 == {Nul, 55357, 56320}

\* 32-bit code units offered as raw input: the nul unit and a surrogate value;
\* the scalars come into the strings through Chars.
Units32 == {Nul, 56832}

\* Unicode scalar values (Rust `char`): a basic-range one, U+00E9, and a
\* supplementary one, U+1F600 (UTF-16: 0xD83D 0xDE00).
Chars == {233, 128512}

None == -1       \* Option::None / no return value

VARIABLES width, inner, capacity, status, last, prior

vars == <<width, inner, capacity, status, last, prior>>

\* ------------------------------------------------------------ slice helpers
Sub(v, a, b) == SubSeq(v, a + 1, b)

RECURSIVE Zeros(_)
Zeros(n) == IF n <= 0 THEN <<>> ELSE <<0>> \o Zeros(n - 1)

\* All sequences over S of length at most n.
RECURSIVE SeqsUpTo(_, _)
SeqsUpTo(S, n) ==
    IF n = 0 THEN {<<>>}
    ELSE LET shorter == SeqsUpTo(S, n - 1)
         IN  shorter \cup {Append(t, x) : t \in {u \in shorter : Len(u) = n - 1}, x \in S}

\* Result of running a method body on the vector v.
Out(v, r, t, p) == [inner |-> v, ret |-> r, tail |-> t, panic |-> p]

\* ------------------------------------------------------- crate / core helpers
is_utf16_surrogate(u) == u >= 55296 /\ u <= 57343
is_utf16_high_surrogate(u) == u >= 55296 /\ u <= 56319
is_utf16_low_surrogate(u) == u >= 56320 /\ u <= 57343

\* char::encode_utf16
encode_utf16(c) ==
    IF c <= 65535 THEN <<c>>
    ELSE LET d == c - 65536
         IN  <<55296 + (d \div 1024), 56320 + (d % 1024)>>

\* char::len_utf16
len_utf16(c) == IF c <= 65535 THEN 1 ELSE 2

\* First item of char::decode_utf16 over the non-empty unit sequence s:
\* Ok(char) or Err(unpaired surrogate).
decode_utf16(s) ==
    LET u == s[1]
    IN  IF u < 55296 \/ u > 57343 THEN [ok |-> TRUE, val |-> u]
        ELSE IF u >= 56320 THEN [ok |-> FALSE, val |-> u]
        ELSE IF Len(s) < 2 THEN [ok |-> FALSE, val |-> u]
        ELSE IF s[2] < 56320 \/ s[2] > 57343 THEN [ok |-> FALSE, val |-> u]
        ELSE [ok |-> TRUE,
              val |-> (((u % 1024) * 1024) + (s[2] % 1024)) + 65536]

\* str::encode_utf16 over a text (sequence of scalar values).
RECURSIVE str_encode_utf16(_)
str_encode_utf16(t) ==
    IF Len(t) = 0 THEN <<>>
    ELSE encode_utf16(Head(t)) \o str_encode_utf16(Tail(t))

\* Vec::resize / Vec::resize_with(Default::default)
resize(v, n) ==
    IF n <= Len(v) THEN Sub(v, 0, n) ELSE v \o Zeros(n - Len(v))

\* slice::copy_within(src.., dest): panics unless dest <= len - count.
copy_within_ok(v, src, dest) ==
    src <= Len(v) /\ dest <= Len(v) - (Len(v) - src)

copy_within(v, src, dest) ==
    LET count == Len(v) - src
    IN  [i \in 1..Len(v) |->
            IF i > dest /\ i <= dest + count THEN v[src + (i - dest)] ELSE v[i]]

\* self.inner[idx..].copy_from_slice(s): panics unless the lengths agree.
copy_from_slice_ok(v, idx, s) == idx <= Len(v) /\ Len(v) - idx = Len(s)

copy_from_slice(v, idx, s) == Sub(v, 0, idx) \o s

\* ------------------------------------------------------------- Vec capacity
Max(a, b) == IF a >= b THEN a ELSE b

\* Amortized growth of Vec to hold `required` units: at least double, and at
\* least 4 units for 2- and 4-byte elements.
grow_amortized(cap, required) == Max(Max(cap * 2, required), 4)

\* reserve that takes `additional` for the wanted total capacity.
reserve_total(cap, len, additional) ==
    IF cap >= additional THEN cap ELSE grow_amortized(cap, additional)

\* Vec::reserve(additional) on a vector of len units and capacity cap.
reserve(cap, len, additional) ==
    IF cap - len >= additional THEN cap ELSE grow_amortized(cap, len + additional)

\* reserve_exact that always reallocates to exactly len + additional.
reserve_exact_reallocating(cap, len, additional) == len + additional

\* Vec::reserve_exact(additional)
reserve_exact(cap, len, additional) ==
    IF cap - len >= additional THEN cap ELSE len + additional

\* Vec::shrink_to_fit
shrink_to_fit(cap, len) == IF cap > len THEN len ELSE cap

\* Capacities Vec::extend(iterator) may end with when the vector grows from
\* len to new_len units: it reserves (amortized) each time it is full, for as
\* many units as the iterator's size hint then promises.
extend_caps(cap, len, new_len) ==
    IF new_len <= cap THEN {cap}
    ELSE {c \in {grow_amortized(cap, k) : k \in (len + 1)..new_len}
                \cup {grow_amortized(grow_amortized(cap, len + 1), new_len)} :
            c >= new_len}

\* Capacities Iterator::collect() may give a vector of len units: none for
\* the empty one, else the first size hint plus one, at least 4, grown as by
\* extend.
collect_caps(len) ==
    IF len = 0 THEN {0} ELSE {Max(4, len), Max(4, len) + 1}

\* --------------------------------------------------------------- common impl
new == Out(<<>>, None, <<>>, FALSE)

\* from_ptr that asserts the pointer before it looks at len.
from_ptr_assert_first(null, s, len) ==
    IF null THEN Out(<<>>, None, <<>>, TRUE)
    ELSE IF len = 0 THEN new
    ELSE Out(Sub(s, 0, len), None, <<>>, FALSE)

\* from_ptr(p, len): `s` is the memory at p, null says whether p is null.
from_ptr(null, s, len) ==
    IF len = 0 THEN new
    ELSE IF null THEN Out(<<>>, None, <<>>, TRUE)
    ELSE Out(Sub(s, 0, len), None, <<>>, FALSE)

\* Vec::clear
clear(v) == Out(<<>>, None, <<>>, FALSE)

\* push that stops at the first nul unit of s.
push_until_nul(v, s) ==
    LET nuls == {i \in 1..Len(s) : s[i] = 0}
        n == IF nuls = {} THEN Len(s)
             ELSE (CHOOSE i \in nuls : \A j \in nuls : i <= j) - 1
    IN  Out(v \o Sub(s, 0, n), None, <<>>, FALSE)

\* push(s): s is the content of the string given.
push(v, s) == Out(v \o s, None, <<>>, FALSE)

push_slice(v, s) == Out(v \o s, None, <<>>, FALSE)

\* truncate that keeps one unit more than asked.
truncate_one_more(v, new_len) ==
    Out(IF new_len < Len(v) THEN Sub(v, 0, new_len + 1) ELSE v, None, <<>>, FALSE)

\* truncate that resizes: a new_len beyond the length pads the string.
truncate_resizing(v, new_len) == Out(resize(v, new_len), None, <<>>, FALSE)

truncate(v, new_len) ==
    Out(IF new_len < Len(v) THEN Sub(v, 0, new_len) ELSE v, None, <<>>, FALSE)

\* insert_ustr without the assert!(idx <= self.len()) of line 363.
insert_ustr_no_assert(v, idx, s) ==
    LET v1 == resize(v, Len(v) + Len(s))
    IN  IF ~copy_within_ok(v1, idx, idx + Len(s))
        THEN Out(v1, None, <<>>, TRUE)
        ELSE LET v2 == copy_within(v1, idx, idx + Len(s))
             IN  IF ~copy_from_slice_ok(v2, idx, s)
                 THEN Out(v2, None, <<>>, TRUE)
                 ELSE Out(copy_from_slice(v2, idx, s), None, <<>>, FALSE)

insert_ustr(v, idx, s) ==
    IF ~(idx <= Len(v)) THEN Out(v, None, <<>>, TRUE)
    ELSE LET v1 == resize(v, Len(v) + Len(s))
         IN  IF ~copy_within_ok(v1, idx, idx + Len(s))
             THEN Out(v1, None, <<>>, TRUE)
             ELSE LET v2 == copy_within(v1, idx, idx + Len(s))
                  IN  IF ~copy_from_slice_ok(v2, idx, s)
                      THEN Out(v2, None, <<>>, TRUE)
                      ELSE Out(copy_from_slice(v2, idx, s), None, <<>>, FALSE)

\* split_off that keeps the tail and returns the head.
split_off_swapped(v, at) ==
    IF at > Len(v) THEN Out(v, None, <<>>, TRUE)
    ELSE Out(Sub(v, at, Len(v)), None, Sub(v, 0, at), FALSE)

\* Vec::split_off panics if at > len.
split_off(v, at) ==
    IF at > Len(v) THEN Out(v, None, <<>>, TRUE)
    ELSE Out(Sub(v, 0, at), None, Sub(v, at, Len(v)), FALSE)

\* ----------------------------------------------------------------- U16String
\* from_str that casts every scalar to u16 instead of encoding it.
U16String_from_str_cast(t) ==
    Out([i \in 1..Len(t) |-> t[i] % 65536], None, <<>>, FALSE)

U16String_from_str(t) == Out(str_encode_utf16(t), None, <<>>, FALSE)

\* push_str that casts every scalar to u16 instead of encoding it.
U16String_push_str_cast(v, t) ==
    Out(v \o [i \in 1..Len(t) |-> t[i] % 65536], None, <<>>, FALSE)

U16String_push_str(v, t) == Out(v \o str_encode_utf16(t), None, <<>>, FALSE)

U16String_push_char(v, c) == Out(v \o encode_utf16(c), None, <<>>, FALSE)

\* pop without the `self.inner.is_empty()` test of line 1021.
U16String_pop_no_empty_test(v) ==
    IF Len(v) = 0 THEN Out(v, None, <<>>, FALSE)
    ELSE LET low == v[Len(v)]
             v1 == Sub(v, 0, Len(v) - 1)
         IN  IF is_utf16_surrogate(low)
             THEN IF ~is_utf16_low_surrogate(low)
                  THEN Out(v1, low, <<>>, FALSE)
                  ELSE Out(v1, None, <<>>, TRUE)
             ELSE Out(v1, low, <<>>, FALSE)

\* pop without the `!is_utf16_low_surrogate(low)` test of line 1021: a
\* trailing high surrogate is taken for the second half of a pair.
U16String_pop_no_low_test(v) ==
    IF Len(v) = 0 THEN Out(v, None, <<>>, FALSE)
    ELSE LET low == v[Len(v)]
             v1 == Sub(v, 0, Len(v) - 1)
         IN  IF is_utf16_surrogate(low)
             THEN IF Len(v1) = 0
                  THEN Out(v1, low, <<>>, FALSE)
                  ELSE Out(v1, None, <<>>, TRUE)
             ELSE Out(v1, low, <<>>, FALSE)

U16String_pop(v) ==
    IF Len(v) = 0 THEN Out(v, None, <<>>, FALSE)
    ELSE LET low == v[Len(v)]
             v1 == Sub(v, 0, Len(v) - 1)
         IN  IF is_utf16_surrogate(low)
             THEN IF ~is_utf16_low_surrogate(low) \/ Len(v1) = 0
                  THEN Out(v1, low, <<>>, FALSE)
                  ELSE LET i == Len(v1)
                       IN  IF ~(i < Len(v1)) THEN Out(v1, None, <<>>, TRUE)
                           ELSE LET high == v1[i + 1]
                                IN  IF is_utf16_high_surrogate(high)
                                    THEN Out(Sub(v1, 0, Len(v1) - 1),
                                             decode_utf16(<<high, low>>).val,
                                             <<>>, FALSE)
                                    ELSE Out(v1, low, <<>>, FALSE)
             ELSE Out(v1, low, <<>>, FALSE)

\* remove that always drains one unit, whatever was decoded.
U16String_remove_one_unit(v, idx) ==
    IF idx > Len(v) THEN Out(v, None, <<>>, TRUE)
    ELSE LET slice == Sub(v, idx, Len(v))
         IN  IF Len(slice) = 0 THEN Out(v, None, <<>>, TRUE)
             ELSE LET d == decode_utf16(slice)
                      c == IF d.ok THEN d.val ELSE v[idx + 1]
                  IN  Out(Sub(v, 0, idx) \o Sub(v, idx + 1, Len(v)),
                          c, <<>>, FALSE)

U16String_remove(v, idx) ==
    IF idx > Len(v) THEN Out(v, None, <<>>, TRUE)
    ELSE LET slice == Sub(v, idx, Len(v))
         IN  IF Len(slice) = 0 THEN Out(v, None, <<>>, TRUE)
             ELSE LET d == decode_utf16(slice)
                      clen == IF d.ok THEN len_utf16(d.val) ELSE 1
                      c == IF d.ok THEN d.val ELSE v[idx + 1]
                  IN  Out(Sub(v, 0, idx) \o Sub(v, idx + clen, Len(v)),
                          c, <<>>, FALSE)

U16String_insert(v, idx, c) ==
    IF ~(idx <= Len(v)) THEN Out(v, None, <<>>, TRUE)
    ELSE LET slice == encode_utf16(c)
             v1 == resize(v, Len(v) + Len(slice))
         IN  IF ~copy_within_ok(v1, idx, idx + Len(slice))
             THEN Out(v1, None, <<>>, TRUE)
             ELSE LET v2 == copy_within(v1, idx, idx + Len(slice))
                  IN  IF ~copy_from_slice_ok(v2, idx, slice)
                      THEN Out(v2, None, <<>>, TRUE)
                      ELSE Out(copy_from_slice(v2, idx, slice), None, <<>>, FALSE)

\* ----------------------------------------------------------------- U32String
U32String_from_str(t) == Out(t, None, <<>>, FALSE)

\* chars().map(|c| c as u32)
U32String_push_str(v, t) == Out(v \o t, None, <<>>, FALSE)

U32String_push_char(v, c) == Out(Append(v, c), None, <<>>, FALSE)

U32String_pop(v) ==
    IF Len(v) = 0 THEN Out(v, None, <<>>, FALSE)
    ELSE Out(Sub(v, 0, Len(v) - 1), v[Len(v)], <<>>, FALSE)

\* Vec::remove panics if idx >= len.
U32String_remove(v, idx) ==
    IF idx >= Len(v) THEN Out(v, None, <<>>, TRUE)
    ELSE Out(Sub(v, 0, idx) \o Sub(v, idx + 1, Len(v)), v[idx + 1], <<>>, FALSE)

\* insert that splices the UTF-16 encoding of c, as the 16-bit one does.
U32String_insert_utf16(v, idx, c) ==
    IF idx > Len(v) THEN Out(v, None, <<>>, TRUE)
    ELSE Out(Sub(v, 0, idx) \o encode_utf16(c) \o Sub(v, idx, Len(v)),
             None, <<>>, FALSE)

\* Vec::insert panics if idx > len.
U32String_insert(v, idx, c) ==
    IF idx > Len(v) THEN Out(v, None, <<>>, TRUE)
    ELSE Out(Sub(v, 0, idx) \o <<c>> \o Sub(v, idx, Len(v)), None, <<>>, FALSE)

\* ---------------------------------------------------------------- impl Write
Ok == 0          \* core::fmt::Result Ok(())

write_str(w, v, t) ==
    LET o == IF w = 16 THEN U16String_push_str(v, t) ELSE U32String_push_str(v, t)
    IN  [o EXCEPT !.ret = Ok]

write_char(w, v, c) ==
    LET o == IF w = 16 THEN U16String_push_char(v, c) ELSE U32String_push_char(v, c)
    IN  [o EXCEPT !.ret = Ok]

\* ------------------------------------------------------------- state machine
Slices16 == SeqsUpTo(Units16, MaxSlice)
Slices32 == SeqsUpTo(Units32, MaxSlice)
Slices == IF width = 16 THEN Slices16 ELSE Slices32
Texts == SeqsUpTo(Chars, MaxLen)

\* The texts push_str / write_str are given, by the room (in units) left in
\* the string.
PushTexts ==
    [room \in 0..MaxLen |->
        {t \in SeqsUpTo(Chars, MaxText) : Len(str_encode_utf16(t)) <= room}]

Call(name, idx, c, s) ==
    [op |-> name, idx |-> idx, c |-> c, s |-> s,
     pre |-> <<>>, cap |-> 0, ret |-> None, tail |-> <<>>]

NoCall == Call("none", 0, 0, <<>>)

\* Calls remembered one step longer, for the properties about two
\* consecutive calls.
Tracked == {"push_char", "insert", "from_str"}

\* One method call: `out` is the outcome of the method body on `inner`, cap
\* the capacity it leaves.
Step(call, out, cap) ==
    /\ status = "ok"
    /\ inner' = out.inner
    /\ capacity' = cap
    /\ status' = IF out.panic THEN "panic" ELSE "ok"
    /\ last' = [call EXCEPT !.pre = inner, !.cap = capacity,
                            !.ret = out.ret, !.tail = out.tail]
    /\ prior' = IF last.op \in Tracked THEN last ELSE NoCall
    /\ UNCHANGED width

\* What a constructor call leaves behind: the constructed string, or the
\* panic of the constructor.
Constructed(call, out, cap) ==
    /\ inner = out.inner
    /\ capacity = cap
    /\ status = IF out.panic THEN "panic" ELSE "ok"
    /\ last = [call EXCEPT !.ret = out.ret, !.tail = out.tail]
    /\ prior = NoCall

New == Constructed(Call("new", 0, 0, <<>>), new, 0)

\* Vec::with_capacity(n): no content, room for n units.
WithCapacity ==
    \E n \in 0..MaxLen :
        Constructed(Call("with_capacity", n, 0, <<>>), new, n)

FromPtr ==
    \E null \in BOOLEAN, s \in Slices, len \in 0..MaxSlice :
        /\ (~null) => len <= Len(s)
        /\ null => s = <<>>
        /\ Constructed(Call("from_ptr", len, IF null THEN 1 ELSE 0, s),
                       from_ptr(null, s, len),
                       Len(from_ptr(null, s, len).inner))

FromStr ==
    \E t \in Texts :
        /\ Len(str_encode_utf16(t)) <= MaxLen
        /\ LET o == IF width = 16 THEN U16String_from_str(t)
                    ELSE U32String_from_str(t)
           IN  \E cap \in collect_caps(Len(o.inner)) :
                   Constructed(Call("from_str", 0, 0, t), o, cap)

\* The string right after its construction, by any of the constructors.
Init ==
    /\ width \in {16, 32}
    /\ (New \/ WithCapacity \/ FromPtr \/ FromStr)

Clear ==
    /\ status = "ok"
    /\ Step(Call("clear", 0, 0, <<>>), clear(inner), capacity)

\* extend_from_slice reserves for the units it appends.
Push ==
    \E s \in Slices :
        /\ Len(inner) + Len(s) <= MaxLen
        /\ Step(Call("push", 0, 0, s), push(inner, s),
                reserve(capacity, Len(inner), Len(s)))

PushSlice ==
    \E s \in Slices :
        /\ Len(inner) + Len(s) <= MaxLen
        /\ Step(Call("push_slice", 0, 0, s), push_slice(inner, s),
                reserve(capacity, Len(inner), Len(s)))

Truncate ==
    \E new_len \in 0..(Len(inner) + 1) :
        Step(Call("truncate", new_len, 0, <<>>), truncate(inner, new_len),
             capacity)

\* resize_with reserves for the view before copy_within runs.
InsertUstr ==
    \E idx \in 0..(Len(inner) + 1), s \in Slices :
        /\ Len(inner) + Len(s) <= MaxLen
        /\ Step(Call("insert_ustr", idx, 0, s), insert_ustr(inner, idx, s),
                IF idx <= Len(inner) THEN reserve(capacity, Len(inner), Len(s))
                ELSE capacity)

SplitOff ==
    \E at \in 0..(Len(inner) + 1) :
        Step(Call("split_off", at, 0, <<>>), split_off(inner, at), capacity)

\* extend_from_slice (16-bit) and Vec::push (32-bit) reserve for what they add.
PushChar ==
    \E c \in Chars :
        /\ Len(inner) + len_utf16(c) <= MaxLen
        /\ Step(Call("push_char", 0, c, <<>>),
                IF width = 16 THEN U16String_push_char(inner, c)
                ELSE U32String_push_char(inner, c),
                reserve(capacity, Len(inner),
                        IF width = 16 THEN len_utf16(c) ELSE 1))

Pop ==
    /\ status = "ok"
    /\ Step(Call("pop", 0, 0, <<>>),
            IF width = 16 THEN U16String_pop(inner) ELSE U32String_pop(inner),
            capacity)

Remove ==
    \E idx \in 0..(Len(inner) + 1) :
        Step(Call("remove", idx, 0, <<>>),
             IF width = 16 THEN U16String_remove(inner, idx)
             ELSE U32String_remove(inner, idx),
             capacity)

\* 16-bit: resize reserves once the assertion has passed.  32-bit: Vec::insert
\* reserves for one unit; whether it does so before or after it has checked
\* the index is not fixed, so a refused insert may or may not have grown.
Insert ==
    \E idx \in 0..(Len(inner) + 1), c \in Chars :
        /\ Len(inner) + len_utf16(c) <= MaxLen
        /\ \E cap \in IF width = 16
                       THEN {IF idx <= Len(inner)
                             THEN reserve(capacity, Len(inner), len_utf16(c))
                             ELSE capacity}
                       ELSE IF idx <= Len(inner)
                            THEN {reserve(capacity, Len(inner), 1)}
                            ELSE {capacity, reserve(capacity, Len(inner), 1)} :
               Step(Call("insert", idx, c, <<>>),
                    IF width = 16 THEN U16String_insert(inner, idx, c)
                    ELSE U32String_insert(inner, idx, c),
                    cap)

PushStr ==
    \E t \in PushTexts[MaxLen - Len(inner)] :
        /\ Len(inner) + Len(str_encode_utf16(t)) <= MaxLen
        /\ LET o == IF width = 16 THEN U16String_push_str(inner, t)
                    ELSE U32String_push_str(inner, t)
           IN  \E cap \in extend_caps(capacity, Len(inner), Len(o.inner)) :
                   Step(Call("push_str", 0, 0, t), o, cap)

WriteStr ==
    \E t \in PushTexts[MaxLen - Len(inner)] :
        /\ Len(inner) + Len(str_encode_utf16(t)) <= MaxLen
        /\ LET o == write_str(width, inner, t)
           IN  \E cap \in extend_caps(capacity, Len(inner), Len(o.inner)) :
                   Step(Call("write_str", 0, 0, t), o, cap)

WriteChar ==
    \E c \in Chars :
        /\ Len(inner) + len_utf16(c) <= MaxLen
        /\ Step(Call("write_char", 0, c, <<>>), write_char(width, inner, c),
                reserve(capacity, Len(inner),
                        IF width = 16 THEN len_utf16(c) ELSE 1))

Reserve ==
    \E additional \in 0..MaxAdditional :
        /\ additional >= 0
        /\ Step(Call("reserve", additional, 0, <<>>), Out(inner, None, <<>>, FALSE),
             reserve(capacity, Len(inner), additional))

ReserveExact ==
    \E additional \in 0..MaxAdditional :
        /\ additional >= 0
        /\ Step(Call("reserve_exact", additional, 0, <<>>),
             Out(inner, None, <<>>, FALSE),
             reserve_exact(capacity, Len(inner), additional))

ShrinkToFit ==
    /\ status = "ok"
    /\ Step(Call("shrink_to_fit", 0, 0, <<>>), Out(inner, None, <<>>, FALSE),
            shrink_to_fit(capacity, Len(inner)))

Next ==
    \/ Clear
    \/ Push
    \/ Reserve
    \/ ReserveExact
    \/ ShrinkToFit
    \/ PushStr
    \/ WriteStr
    \/ WriteChar
    \/ PushSlice
    \/ Truncate
    \/ InsertUstr
    \/ SplitOff
    \/ PushChar
    \/ Pop
    \/ Remove
    \/ Insert

Spec == Init /\ [][Next]_vars

\* The 16-bit string that is only ever given text: built empty or by
\* from_str, then changed by push_char, push_str and pop alone.
InitChars ==
    /\ width = 16
    /\ (New \/ FromStr)

NextChars ==
    \/ PushChar
    \/ PushStr
    \/ Pop

SpecChars == InitChars /\ [][NextChars]_vars

\* -------------------------------------------------------------- properties
PreLen == Len(last.pre)

\* The scalar a high/low surrogate pair stands for.
Combined(high, low) == 65536 + ((high - 55296) * 1024) + (low - 56320)

\* The string is s with the k units from idx on taken out.
Without(s, idx, k) == Sub(s, 0, idx) \o Sub(s, idx + k, Len(s))

\* C1: 16-bit: push_char(c) immediately followed by pop() returns c and
\* leaves the string with the content it had before push_char, for every
\* scalar c and every content.
C1_PushCharThenPop ==
    (width = 16 /\ last.op = "pop" /\ prior.op = "push_char")
        => /\ status = "ok"
           /\ last.ret = prior.c
           /\ inner = prior.pre

\* C2: 16-bit pop(): a trailing low surrogate preceded by a high surrogate is
\* popped together with it (two units removed, the rest unchanged) and the
\* combined scalar is returned.
C2_PopSurrogatePair ==
    (/\ width = 16 /\ last.op = "pop" /\ PreLen >= 2
     /\ is_utf16_low_surrogate(last.pre[PreLen])
     /\ is_utf16_high_surrogate(last.pre[PreLen - 1]))
        => /\ status = "ok"
           /\ inner = Sub(last.pre, 0, PreLen - 2)
           /\ last.ret = Combined(last.pre[PreLen - 1], last.pre[PreLen])

\* C3: 16-bit pop(): a trailing low surrogate preceded by a unit that is not
\* a high surrogate is popped alone, without a panic, and its raw value is
\* returned.
C3_PopUnpairedLowAfterUnit ==
    (/\ width = 16 /\ last.op = "pop" /\ PreLen >= 2
     /\ is_utf16_low_surrogate(last.pre[PreLen])
     /\ ~is_utf16_high_surrogate(last.pre[PreLen - 1]))
        => /\ status = "ok"
           /\ inner = Sub(last.pre, 0, PreLen - 1)
           /\ last.ret = last.pre[PreLen]

\* C4: 16-bit pop() on a string that is one low surrogate returns the raw
\* value of that surrogate, without a panic, and leaves the string empty.
C4_PopSoleLowSurrogate ==
    (/\ width = 16 /\ last.op = "pop" /\ PreLen = 1
     /\ is_utf16_low_surrogate(last.pre[1]))
        => /\ status = "ok"
           /\ last.ret = last.pre[1]
           /\ inner = <<>>

C4_Witness ==
    /\ width = 16 /\ last.op = "pop" /\ last.pre = <<56320>>
    /\ status = "ok" /\ last.ret = 56320 /\ inner = <<>>

\* C5: 16-bit pop(): a trailing unit that is not a low surrogate is popped
\* alone and returned as it is; a string encoded from a text that ends in a
\* basic-range scalar pops that scalar and is left as the encoding of the text
\* without it; pop() on the empty string returns None and leaves it empty.
C5_PopPlainUnit ==
    (width = 16 /\ last.op = "pop")
        => /\ PreLen = 0 => (status = "ok" /\ last.ret = None /\ inner = <<>>)
           /\ (PreLen > 0 /\ ~is_utf16_low_surrogate(last.pre[PreLen]))
                => /\ status = "ok"
                   /\ last.ret = last.pre[PreLen]
                   /\ inner = Sub(last.pre, 0, PreLen - 1)
           /\ (/\ prior.op = "from_str" /\ Len(prior.s) > 0
               /\ prior.s[Len(prior.s)] <= 65535)
                => /\ status = "ok"
                   /\ last.ret = prior.s[Len(prior.s)]
                   /\ inner = str_encode_utf16(Sub(prior.s, 0, Len(prior.s) - 1))

C5_Witness ==
    /\ width = 16 /\ last.op = "pop" /\ prior.op = "from_str"
    /\ prior.s = <<128512, 233>>
    /\ status = "ok" /\ last.ret = 233 /\ inner = <<55357, 56832>>

\* C6: 16-bit: insert(idx, c) with idx <= length completes, and remove(idx)
\* right after it returns c and restores the content the string had before
\* the insert.
C6_InsertThenRemove ==
    (width = 16 /\ last.op = "insert" /\ last.idx <= PreLen)
        => /\ status = "ok"
           /\ ~U16String_remove(inner, last.idx).panic
           /\ U16String_remove(inner, last.idx).ret = last.c
           /\ U16String_remove(inner, last.idx).inner = last.pre

\* C7: 16-bit insert(idx, c) with idx <= length completes and yields
\* old[0..idx) ++ utf16(c) ++ old[idx..length): one unit for c <= 0xFFFF, a
\* surrogate pair otherwise.
C7_InsertSplices ==
    (width = 16 /\ last.op = "insert" /\ last.idx <= PreLen)
        => /\ status = "ok"
           /\ Len(inner) = PreLen + (IF last.c <= 65535 THEN 1 ELSE 2)
           /\ Sub(inner, 0, last.idx) = Sub(last.pre, 0, last.idx)
           /\ Sub(inner, last.idx, Len(inner) - (PreLen - last.idx))
                = (IF last.c <= 65535 THEN <<last.c>>
                   ELSE <<55296 + ((last.c - 65536) \div 1024),
                          56320 + ((last.c - 65536) % 1024)>>)
           /\ Sub(inner, Len(inner) - (PreLen - last.idx), Len(inner))
                = Sub(last.pre, last.idx, PreLen)

\* C8: insert_ustr(idx, view) with idx <= length completes and yields
\* old[0..idx) ++ view ++ old[idx..length), for both widths and every view,
\* the empty one included.
C8_InsertUstrSplices ==
    (last.op = "insert_ustr" /\ last.idx <= PreLen)
        => /\ status = "ok"
           /\ inner = Sub(last.pre, 0, last.idx) \o last.s
                        \o Sub(last.pre, last.idx, PreLen)

\* C9: 16-bit remove(idx) with idx < length removes the two units at idx and
\* idx+1 and returns their combined scalar when they are a high surrogate
\* followed by a low one; otherwise it removes the one unit at idx and returns
\* its value.
C9_RemoveDecodes ==
    (width = 16 /\ last.op = "remove" /\ last.idx < PreLen)
        => LET u == last.pre[last.idx + 1]
               paired == /\ is_utf16_high_surrogate(u)
                         /\ last.idx + 1 < PreLen
                         /\ is_utf16_low_surrogate(last.pre[last.idx + 2])
           IN  /\ status = "ok"
               /\ inner = Without(last.pre, last.idx, IF paired THEN 2 ELSE 1)
               /\ last.ret = IF paired THEN Combined(u, last.pre[last.idx + 2])
                             ELSE u

C9_Witness ==
    /\ width = 16 /\ last.op = "remove" /\ last.idx = 1
    /\ last.pre = <<233, 55357, 56832>>
    /\ status = "ok" /\ last.ret = 128512 /\ inner = <<233>>

\* C10: a call that panics has not changed the string: at the panic the
\* content and length are those before the call.
C10_PanicBeforeMutation ==
    status = "panic" => inner = last.pre

\* C11: an out-of-range index is fatal and changes nothing: insert_ustr,
\* insert and split_off with an index beyond the length, and remove with an
\* index at or beyond the length, panic with the content as it was.
C11_OutOfRangeIsFatal ==
    (\/ (last.op \in {"insert_ustr", "insert", "split_off"} /\ last.idx > PreLen)
     \/ (last.op = "remove" /\ last.idx >= PreLen))
        => (status = "panic" /\ inner = last.pre)

C11_Witness ==
    /\ width = 16 /\ last.op = "remove" /\ last.pre = <<233>> /\ last.idx = 1
    /\ status = "panic" /\ inner = <<233>>

\* C12 as stated: every operation that takes an index or offset, truncate
\* included, panics when the argument is greater than the length.
C12_AllIndexedOpsAbort ==
    (/\ last.op \in {"insert_ustr", "insert", "remove", "truncate", "split_off"}
     /\ last.idx > PreLen)
        => status = "panic"

\* C12 as amended: insert_ustr, insert, remove and split_off panic when the
\* argument is greater than the length; truncate with new_len greater than
\* the length completes and leaves the string as it was.
C12_AllButTruncateAbort ==
    /\ (/\ last.op \in {"insert_ustr", "insert", "remove", "split_off"}
        /\ last.idx > PreLen)
            => status = "panic"
    /\ (last.op = "truncate" /\ last.idx > PreLen)
            => (status = "ok" /\ inner = last.pre)

C12_Witness ==
    /\ last.op = "truncate" /\ last.pre = <<233, 55357>> /\ last.idx = 3
    /\ status = "ok" /\ inner = <<233, 55357>>

\* C15: split_off(at) panics when at is equal to or greater than the length.
C15_SplitOffAtLenPanics ==
    (last.op = "split_off" /\ last.idx >= PreLen) => status = "panic"

\* C18: from_ptr(p, len) is the empty string when len is 0, null or not;
\* panics when len > 0 and p is null; and otherwise is a copy of the len
\* units at p.  (last.c = 1 says p is null, last.s is the memory at p.)
C18_FromPtr ==
    last.op = "from_ptr"
        => /\ last.idx = 0 => (status = "ok" /\ inner = <<>>)
           /\ (last.idx > 0 /\ last.c = 1) => status = "panic"
           /\ (last.idx > 0 /\ last.c = 0)
                => /\ status = "ok"
                   /\ Len(inner) = last.idx
                   /\ \A i \in 1..last.idx : inner[i] = last.s[i]

C18_Witness ==
    /\ width = 16 /\ last.op = "from_ptr" /\ last.c = 0 /\ last.idx = 1
    /\ last.s = <<56320>> /\ status = "ok" /\ inner = <<56320>>

\* The UTF-16 encoding of a text, scalar by scalar: one unit up to U+FFFF, a
\* high/low surrogate pair above.
RECURSIVE Utf16Of(_)
Utf16Of(t) ==
    IF Len(t) = 0 THEN <<>>
    ELSE (IF Head(t) <= 65535 THEN <<Head(t)>>
          ELSE <<55296 + ((Head(t) - 65536) \div 1024),
                 56320 + ((Head(t) - 65536) % 1024)>>) \o Utf16Of(Tail(t))

\* The encoding of a text in the width of the string.
Encoded(t) == IF width = 16 THEN Utf16Of(t) ELSE t

\* Standard lossy decoding of 16-bit units: a scalar per non-surrogate unit
\* or surrogate pair, U+FFFD per unpaired surrogate.
RECURSIVE DecodeUtf16(_)
DecodeUtf16(s) ==
    IF Len(s) = 0 THEN <<>>
    ELSE LET d == decode_utf16(s)
             k == IF d.ok /\ d.val > 65535 THEN 2 ELSE 1
         IN  <<IF d.ok THEN d.val ELSE 65533>> \o DecodeUtf16(Sub(s, k, Len(s)))

\* Standard lossy decoding of 32-bit units: the unit when it is a scalar
\* value, U+FFFD otherwise.
DecodeUtf32(s) ==
    [i \in 1..Len(s) |->
        IF s[i] <= 1114111 /\ ~(s[i] >= 55296 /\ s[i] <= 57343) THEN s[i] ELSE 65533]

\* C19: from_str never fails; it yields one unit per scalar up to U+FFFF and
\* a surrogate pair per larger scalar (16-bit), one unit per scalar (32-bit);
\* and decoding the result gives the text back.
C19_FromStrRoundTrip ==
    last.op = "from_str"
        => /\ status = "ok"
           /\ inner = Encoded(last.s)
           /\ (IF width = 16 THEN DecodeUtf16(inner) ELSE DecodeUtf32(inner)) = last.s

C19_Witness ==
    /\ width = 16 /\ last.op = "from_str" /\ last.s = <<233, 128512>>
    /\ status = "ok" /\ inner = <<233, 55357, 56832>>

\* C20: push_str, write_str and write_char always succeed and append exactly
\* the encoding of their text: written into an empty string the result is
\* from_str of the text, and from_str(a) followed by push_str(b) is
\* from_str(a ++ b).
C20_WriteAppendsEncoding ==
    /\ last.op \in {"push_str", "write_str"}
        => /\ status = "ok"
           /\ last.op = "write_str" => last.ret = Ok
           /\ inner = last.pre \o Encoded(last.s)
           /\ last.pre = <<>>
                => inner = (IF width = 16 THEN U16String_from_str(last.s)
                            ELSE U32String_from_str(last.s)).inner
           /\ prior.op = "from_str"
                => inner = (IF width = 16 THEN U16String_from_str(prior.s \o last.s)
                            ELSE U32String_from_str(prior.s \o last.s)).inner
    /\ last.op = "write_char"
        => /\ status = "ok"
           /\ last.ret = Ok
           /\ inner = last.pre \o Encoded(<<last.c>>)

C20_Witness ==
    /\ width = 16 /\ last.op = "write_str" /\ prior.op = "from_str"
    /\ prior.s = <<233>> /\ last.s = <<128512>>
    /\ status = "ok" /\ inner = <<233, 55357, 56832>>

\* C13: truncate(new_len) never panics and leaves the capacity as it was; the
\* string becomes old[0..new_len) when new_len < length and is unchanged
\* otherwise.
C13_Truncate ==
    last.op = "truncate"
        => /\ status = "ok"
           /\ capacity = last.cap
           /\ inner = IF last.idx < PreLen THEN Sub(last.pre, 0, last.idx)
                      ELSE last.pre

C13_Witness ==
    /\ last.op = "truncate" /\ last.idx = 1 /\ last.pre = <<233, 55357>>
    /\ status = "ok" /\ inner = <<233>> /\ capacity = last.cap /\ capacity >= 2

\* C14: split_off(at) with at <= length returns old[at..length) and leaves
\* old[0..at) in place, so that self ++ returned = old, with the capacity of
\* self as it was (at = 0 included).
C14_SplitOff ==
    (last.op = "split_off" /\ last.idx <= PreLen)
        => /\ status = "ok"
           /\ last.tail = Sub(last.pre, last.idx, PreLen)
           /\ inner = Sub(last.pre, 0, last.idx)
           /\ inner \o last.tail = last.pre
           /\ capacity = last.cap

C14_Witness ==
    /\ last.op = "split_off" /\ last.idx = 0 /\ last.pre = <<233, 55357>>
    /\ status = "ok" /\ inner = <<>> /\ last.tail = <<233, 55357>>
    /\ capacity = last.cap /\ capacity >= 2

\* C16: after reserve(n) or reserve_exact(n) the capacity is at least
\* length + n, the content is unchanged, and nothing changes when the
\* capacity already sufficed; after shrink_to_fit() the capacity equals the
\* length and the content is unchanged.
C16_CapacityContract ==
    /\ last.op \in {"reserve", "reserve_exact"}
        => /\ status = "ok"
           /\ inner = last.pre
           /\ capacity >= Len(inner) + last.idx
           /\ last.cap >= PreLen + last.idx => capacity = last.cap
    /\ last.op = "shrink_to_fit"
        => /\ status = "ok"
           /\ inner = last.pre
           /\ capacity = Len(inner)

C16_Witness ==
    /\ last.op = "reserve" /\ last.idx = 2 /\ last.pre = <<233>> /\ last.cap = 1
    /\ status = "ok" /\ inner = <<233>> /\ capacity = 4

\* C17: in every state reached by constructing a string and calling its
\* methods, one that a panicking call has left included, the length is at
\* most the capacity; and after every call but shrink_to_fit the capacity is
\* at least what it was before the call (a constructor has no capacity
\* before it: last.cap is 0 there).
C17_LenWithinCapacity ==
    /\ Len(inner) <= capacity
    /\ last.op # "shrink_to_fit" => capacity >= last.cap

C17_Witness ==
    /\ last.op = "clear" /\ last.pre = <<233, 55357>> /\ last.cap >= 4
    /\ status = "ok" /\ inner = <<>> /\ capacity = last.cap

\* C21: 32-bit: every character-level call handles one unit and knows no
\* surrogates: push_char(c) appends the unit c; pop() takes the last unit off
\* and returns it (None on the empty string); insert(idx, c) with
\* idx <= length gives old[0..idx) ++ [c] ++ old[idx..); remove(idx) with
\* idx < length deletes the unit at idx and returns it.  So pop() right after
\* push_char(c) returns c, and remove(idx) right after insert(idx, c) returns
\* c, both leaving the content of before the pair of calls.
C21_U32OneUnitPerCall ==
    width = 32 =>
        /\ last.op = "push_char"
               => status = "ok" /\ inner = last.pre \o <<last.c>>
        /\ last.op = "pop"
               => /\ status = "ok"
                  /\ IF PreLen = 0
                     THEN last.ret = None /\ inner = <<>>
                     ELSE /\ last.ret = last.pre[PreLen]
                          /\ inner = Sub(last.pre, 0, PreLen - 1)
        /\ (last.op = "insert" /\ last.idx <= PreLen)
               => /\ status = "ok"
                  /\ inner = Sub(last.pre, 0, last.idx) \o <<last.c>>
                                 \o Sub(last.pre, last.idx, PreLen)
        /\ (last.op = "remove" /\ last.idx < PreLen)
               => /\ status = "ok"
                  /\ last.ret = last.pre[last.idx + 1]
                  /\ inner = Without(last.pre, last.idx, 1)
        /\ (last.op = "pop" /\ prior.op = "push_char")
               => last.ret = prior.c /\ inner = prior.pre
        /\ (/\ last.op = "remove" /\ prior.op = "insert"
            /\ last.idx = prior.idx /\ prior.idx <= Len(prior.pre))
               => status = "ok" /\ last.ret = prior.c /\ inner = prior.pre

C21_Witness ==
    /\ width = 32 /\ last.op = "remove" /\ prior.op = "insert"
    /\ last.idx = 0 /\ prior.idx = 0 /\ prior.c = 128512
    /\ prior.pre = <<56832>> /\ last.pre = <<128512, 56832>>
    /\ status = "ok" /\ last.ret = 128512 /\ inner = <<56832>>

\* C22: push(view) and push_slice(units) append what they are given as it
\* is, nul units and lone surrogates included: the content afterwards is the
\* old content followed by the units given, the length has grown by their
\* number, and the units that were there are unchanged.
C22_PushAppendsVerbatim ==
    last.op \in {"push", "push_slice"}
        => /\ status = "ok"
           /\ inner = last.pre \o last.s
           /\ Len(inner) = PreLen + Len(last.s)
           /\ Sub(inner, 0, PreLen) = last.pre

\* A nul unit pushed right after a lone high surrogate.
C22_Witness ==
    /\ width = 16 /\ last.op = "push" /\ last.pre = <<55357>> /\ last.s = <<0>>
    /\ status = "ok" /\ inner = <<55357, 0>>

\* Well-formed UTF-16: every high surrogate is followed at once by a low one
\* and every low surrogate is preceded at once by a high one.
WellFormed16(v) ==
    \A i \in 1..Len(v) :
        /\ (v[i] >= 55296 /\ v[i] <= 56319)
               => (i < Len(v) /\ v[i + 1] >= 56320 /\ v[i + 1] <= 57343)
        /\ (v[i] >= 56320 /\ v[i] <= 57343)
               => (i > 1 /\ v[i - 1] >= 55296 /\ v[i - 1] <= 56319)

\* A Unicode scalar value: a code point that is not a surrogate.
IsScalar(x) == x >= 0 /\ x <= 1114111 /\ ~(x >= 55296 /\ x <= 57343)

\* C23: a 16-bit string built empty or by from_str and changed by push_char,
\* push_str and pop alone holds well-formed UTF-16 in every state, and every
\* pop returns: None on the empty string, otherwise a scalar value, never
\* the value of a lone surrogate.
C23_WellFormedPreserved ==
    /\ WellFormed16(inner)
    /\ last.op = "pop"
           => /\ status = "ok"
              /\ IF PreLen = 0 THEN last.ret = None ELSE IsScalar(last.ret)

====
